---- MODULE Spec2Model ----
(***************************************************************************)
(* Metropolis-Hastings samplers of Base/mcmc.py: the single-stage driver   *)
(* MetropolisHastings.run_chain and the delayed-acceptance driver          *)
(* MCMCDA.run_chain, with the box prior of Navier-Stokes/nv_files.         *)
(*                                                                         *)
(* Numbers.  A density exp(log p) is held as a natural number, so that     *)
(* exp(x - y) is the quotient e^x / e^y of two naturals: an extended       *)
(* non-negative rational <<n, d>> in which <<n, 0>> (n > 0) is +inf and    *)
(* <<0, 0>> is nan, as torch.exp gives for (-inf) - (-inf).  The step size *)
(* dt is a fixed-point number in units of 1/DtScale, its increment         *)
(* truncated toward zero; 0 stands for nan.  Floating-point rounding of    *)
(* the acceptance probabilities is not modelled.                           *)
(***************************************************************************)
EXTENDS Integers, Sequences, FiniteSets, TLC

VARIABLES
    self,             \* the driver object: its configuration attributes
    args,             \* the arguments of run_chain: samples, verbose
    oracle,           \* the likelihood oracles of the subclass (densities)
    pc,               \* position in run_chain
    err,              \* the statement that raised, "none" otherwise
    theta,            \* current state of the chain
    dt,               \* current step size
    i,                \* loop index of the for loop
    accepted,         \* accepted_proposals (MH) / outer_mh (DA Phase A)
    samples,          \* samples (MH) / samples_outer (DA)
    inner_mh,         \* DA Phase B: trial counter
    inner_accepted,   \* DA Phase B: trials accepted at the fine stage
    acceptance_list,  \* DA Phase B: one outcome entry per trial
    samples_inner,    \* DA Phase B: retained thetas
    result,           \* the value run_chain returned
    count,            \* Phase B: loop iterations, coarse passes, oracle calls
    trial,            \* the last loop iteration: what was drawn and decided
    main,             \* run_chains: position of the calling process
    seeds,            \* run_chains: the seeds drawn for the chains
    processes,        \* run_chains: the chain processes
    result_queue,     \* run_chains: the mp.Queue the chains post to
    results           \* run_chains: the list collected from the queue

mpvars == <<main, seeds, processes, result_queue, results>>

vars == <<self, args, oracle, pc, err, theta, dt, i, accepted, samples,
          inner_mh, inner_accepted, acceptance_list, samples_inner, result,
          count, trial, mpvars>>

----------------------------------------------------------------------------
(* Bounds of the model *)

MaxIterMcmc == 1      \* largest iter_mcmc
MaxIterDa == 2        \* largest iter_da
MaxRaw == 3           \* cap on the raw iterations of the Phase B loop
MaxLike == 2          \* largest likelihood density value
DtScale == 100000     \* step sizes are held in units of 1 / DtScale
MaxNSamples == 2      \* largest nsamples
MaxBurnin == 1        \* largest explicit burnin
MaxChains == 2        \* largest nchains
MaxSeed == 3          \* seeds are drawn from 0 .. MaxSeed - 1
MaxSize == 3          \* largest size of a pickled chain result
PipeCap == 2          \* capacity of the pipe under an mp.Queue

(* Program constants *)

TargetNum == 234      \* target acceptance rate 0.234 = TargetNum / TargetDen
TargetDen == 1000
PbarParts == 10       \* the progress bar is refreshed every iterations // 10

None == "None"

----------------------------------------------------------------------------
(* Parameter space: one coordinate; the box [-1, 1] and one point beyond   *)
(* it on each side, which a Gaussian proposal can always reach.            *)

Theta == -2 .. 2
Box == {t \in Theta : t >= -1 /\ t <= 1}

(* Extended non-negative rationals <<n, d>> *)

nan == <<0, 0>>
IsNaN(x) == x[1] = 0 /\ x[2] = 0
Times(x, y) == <<x[1] * y[1], x[2] * y[2]>>
Inv(x) == <<x[2], x[1]>>
\* torch.clamp(x, max=1.0): nan stays nan
Clamp1(x) == IF IsNaN(x) THEN x ELSE IF x[1] > x[2] THEN <<1, 1>> ELSE x
\* slip: the test is u <= a
Lt_or_equal(u, a) == ~IsNaN(a) /\ u[1] * a[2] <= a[1] * u[2]

\* u < a for a finite u; any comparison with nan is False
Lt(u, a) == ~IsNaN(a) /\ u[1] * a[2] < a[1] * u[2]

\* torch.rand(1): a value of [0, 1); a low draw and a high one
U == {<<0, 2>>, <<1, 2>>}

\* integer quotient truncated toward zero
Quot(n, d) == IF n >= 0 THEN n \div d ELSE 0 - ((0 - n) \div d)

----------------------------------------------------------------------------
(* Oracles *)

\* slip: only the lower edge of the box is tested
prior_lower_only(t) == IF ~(t >= -1) THEN 0 ELSE 1

\* exp(log_prior(theta)): 1 inside the box, 0 (log-prior -inf) outside
prior(t) == IF ~(t >= -1 /\ t <= 1) THEN 0 ELSE 1

\* the likelihoods a run is given: flat (k = 1), or peaked at the centre
Likelihoods ==
    {[t \in Theta |-> IF t = 0 THEN k ELSE 1] : k \in 1 .. MaxLike}

\* exp(log_prior(t) + log_likelihood(t))
posterior(L, t) == prior(t) * L[t]

\* slip: the difference of the log-posteriors is taken the other way round
acceptance_inverted(L, t, tp) == Clamp1(<<posterior(L, t), posterior(L, tp)>>)

\* a = exp(log_posterior_proposal - log_posterior).clamp(max=1.0)
acceptance(L, t, tp) == Clamp1(<<posterior(L, tp), posterior(L, t)>>)

\* slip: the correction factor 1/a is left out
acceptance2_uncorrected(L, t, tp, a) ==
    Clamp1(<<posterior(L, tp), posterior(L, t)>>)

\* a = clamp(exp(log_posterior_proposal_inner - log_posterior_inner)*(1/a))
acceptance2(L, t, tp, a) ==
    Clamp1(Times(<<posterior(L, tp), posterior(L, t)>>, Inv(a)))

\* slip: the increment is assigned (=) instead of added (+=)
adapt_assign(d, a, k) ==
    IF IsNaN(a) THEN 0
    ELSE Quot(d * (a[1] * TargetDen - TargetNum * a[2]),
              TargetDen * a[2] * (k + 1))

\* dt += dt * (a.item() - 0.234) / (i + 1)
adapt(d, a, k) ==
    IF IsNaN(a) THEN 0
    ELSE d + Quot(d * (a[1] * TargetDen - TargetNum * a[2]),
                  TargetDen * a[2] * (k + 1))

\* theta_proposal = self.proposal(theta, dt): Gaussian noise reaches any point
proposal(t, d) == Theta

Zeros(n) == [k \in 1 .. n |-> 0]

\* slip: the proposal replaces theta whatever the draw
decide_always(t, tp, acc) == tp

\* if torch.rand(1) < a: theta = theta_proposal (lines 75-76, 191-192, 234-235)
decide(t, tp, acc) == IF acc THEN tp ELSE t

\* slip: every raw iteration of the loop counts as a trial
count_trial_every(mh, pass1) == mh + 1

\* if torch.rand(1) < a: inner_mh += 1 (lines 223-224)
count_trial(mh, pass1) == IF pass1 THEN mh + 1 ELSE mh

\* slip: the fine oracle is evaluated before the coarse test
inner_calls_every(n, pass1) == n + 2

\* slip: the fine posterior of theta is evaluated before the coarse test
inner_calls_current(n, pass1) == IF pass1 THEN n + 2 ELSE n + 1

\* the two log_likelihood_inner calls of a trial (lines 225-226)
inner_calls(n, pass1) == IF pass1 THEN n + 2 ELSE n

\* acceptance_list[inner_mh-1] += 1 (line 237); mh is the 1-based trial number
record_bit(list, mh, pass2) ==
    IF pass2 THEN [list EXCEPT ![mh] = @ + 1] ELSE list

\* slip: theta is retained only in a trial (inside the coarse-pass branch)
retain_trials(list, t, pass1) == IF pass1 THEN Append(list, t) ELSE list

\* samples_inner.append(theta) (lines 239-241): in every loop iteration
retain(list, t, pass1) == Append(list, t)

\* self.burnin = int(self.nsamples * 0.1) if burnin is None else burnin
\* an optional argument is <<>> (None) or <<value>>
init_burnin(nsamples, burnin) ==
    IF burnin = <<>> THEN nsamples \div PbarParts ELSE burnin[1]

\* slip: the burn-in entries are not trimmed
trim_none(buffer, burnin) == buffer

\* samples[self.burnin:,:] (line 88)
trim(buffer, burnin) == SubSeq(buffer, burnin + 1, Len(buffer))

\* the oracle methods a driver class declares: MCMCDA has log_prior,
\* log_likelihood_outer and log_likelihood_inner, but no log_likelihood
has_log_likelihood(class) == class = "MetropolisHastings"

\* self.proposal(theta, dt) in langevin mode evaluates self.log_likelihood
\* (lines 48, 161); the attribute lookup raises AttributeError when the
\* class has no such method
proposal_raises ==
    self.proposal_type = "langevin" /\ ~has_log_likelihood(self.class)

ProposalTypes == {"random_walk", "langevin"}

\* an mp.Queue: the messages in its pipe, the pipe space they take, and
\* the process whose feeder thread holds the write lock (0: nobody)
EmptyQueue == [items |-> <<>>, used |-> 0, wlock |-> 0]

\* run_chains is not running
NoChains ==
    /\ main = [pc |-> "idle", k |-> 0]
    /\ seeds = <<>>
    /\ processes = <<>>
    /\ result_queue = EmptyQueue
    /\ results = <<>>

NoTrial == [phase |-> "none", before |-> 0, proposal |-> 0,
            stage1 |-> FALSE, stage2 |-> FALSE]
NoCount == [raw |-> 0, passed |-> 0, outer |-> 0, inner |-> 0]

\* i % (n // 10) raises ZeroDivisionError when n // 10 = 0
PbarRaises(n) == args.verbose /\ n \div PbarParts = 0

----------------------------------------------------------------------------
(* MCMCDA.run_chain *)

InitDA ==
    /\ self \in [class : {"MCMCDA"}, iter_mcmc : 0 .. MaxIterMcmc,
                 iter_da : 0 .. MaxIterDa, dt : {DtScale \div 10},
                 proposal_type : ProposalTypes]
    /\ args \in [samples : BOOLEAN, verbose : BOOLEAN]
    /\ oracle \in [outer : Likelihoods, inner : Likelihoods]
    /\ pc = "phaseA"
    /\ err = "none"
    /\ theta \in Box
    /\ dt = self.dt
    /\ i = 0
    /\ accepted = 0
    /\ samples = Zeros(self.iter_mcmc)
    /\ inner_mh = 0
    /\ inner_accepted = 0
    /\ acceptance_list = Zeros(self.iter_da)
    /\ samples_inner = <<>>
    /\ result = None
    /\ count = NoCount
    /\ trial = NoTrial
    /\ NoChains

\* one iteration of the Phase A loop (lines 180-202)
PhaseAIter ==
    /\ pc = "phaseA"
    /\ i < self.iter_mcmc
    /\ IF proposal_raises
       THEN /\ pc' = "raised"
            /\ err' = "line161"
            /\ UNCHANGED <<theta, accepted, samples, dt, trial, i>>
       ELSE
           /\ \E theta_proposal \in proposal(theta, dt), u \in U :
                LET a == acceptance(oracle.outer, theta, theta_proposal)
                    acc == Lt(u, a)
                    theta1 == decide(theta, theta_proposal, acc)
                IN  /\ theta' = theta1
                    /\ accepted' = IF acc THEN accepted + 1 ELSE accepted
                    /\ samples' = IF args.samples
                                  THEN [samples EXCEPT ![i + 1] = theta1]
                                  ELSE samples
                    /\ dt' = adapt(dt, a, i)
                    /\ trial' = [phase |-> "A", before |-> theta,
                                 proposal |-> theta_proposal, stage1 |-> acc,
                                 stage2 |-> FALSE]
           /\ IF PbarRaises(self.iter_mcmc)
              THEN pc' = "raised" /\ err' = "line201" /\ i' = i
              ELSE pc' = pc /\ err' = err /\ i' = i + 1
    /\ UNCHANGED <<mpvars, self, args, oracle, inner_mh, inner_accepted,
                   acceptance_list, samples_inner, result, count>>

\* slip: the step size is set back to the configured one for Phase B
StartDA_reset ==
    /\ pc = "phaseA"
    /\ ~(i < self.iter_mcmc)
    /\ pc' = "phaseB"
    /\ inner_accepted' = 0
    /\ inner_mh' = 0
    /\ dt' = self.dt
    /\ UNCHANGED <<mpvars, self, args, oracle, err, theta, i, accepted, samples,
                   acceptance_list, samples_inner, result, count, trial>>

\* the Phase A loop is exhausted: lines 205-210
StartDA ==
    /\ pc = "phaseA"
    /\ ~(i < self.iter_mcmc)
    /\ pc' = "phaseB"
    /\ inner_accepted' = 0
    /\ inner_mh' = 0
    /\ UNCHANGED <<mpvars, self, args, oracle, err, theta, dt, i, accepted, samples,
                   acceptance_list, samples_inner, result, count, trial>>

\* one iteration of the Phase B loop (lines 211-246); the loop itself has no
\* bound on its iterations, so the counters of calls and the retained buffer
\* follow the first MaxRaw iterations and stand still after them
PhaseBLoop ==
    /\ pc = "phaseB"
    /\ inner_mh < self.iter_da
    /\ IF proposal_raises
       THEN /\ pc' = "raised"
            /\ err' = "line161"
            /\ UNCHANGED <<theta, inner_mh, inner_accepted, acceptance_list,
                         count, samples_inner, trial>>
       ELSE
           /\ \E theta_proposal \in proposal(theta, dt), u1 \in U :
                LET a1 == acceptance(oracle.outer, theta, theta_proposal)
                    pass1 == Lt(u1, a1)
                    a2 == acceptance2(oracle.inner, theta, theta_proposal, a1)
                IN
                \* the second draw (line 234) is made only after a coarse pass
                \E u2 \in IF pass1 THEN U ELSE {u1} :
                LET pass2 == pass1 /\ Lt(u2, a2)
                    mh1 == count_trial(inner_mh, pass1)
                    theta1 == decide(theta, theta_proposal, pass2)
                IN  /\ inner_mh' = mh1
                    /\ theta' = theta1
                    /\ inner_accepted' =
                           IF pass2 THEN inner_accepted + 1 ELSE inner_accepted
                    /\ acceptance_list' = record_bit(acceptance_list, mh1, pass2)
                    /\ count' = IF count.raw < MaxRaw
                                THEN [raw |-> count.raw + 1,
                                      passed |-> IF pass1 THEN count.passed + 1
                                                 ELSE count.passed,
                                      outer |-> count.outer + 2,
                                      inner |-> inner_calls(count.inner, pass1)]
                                ELSE count
                    /\ samples_inner' = IF args.samples /\ count.raw < MaxRaw
                                        THEN retain(samples_inner, theta1, pass1)
                                        ELSE samples_inner
                    /\ trial' = [phase |-> "B", before |-> theta,
                                 proposal |-> theta_proposal, stage1 |-> pass1,
                                 stage2 |-> pass2]
           /\ IF PbarRaises(self.iter_da)
              THEN pc' = "raised" /\ err' = "line244"
              ELSE pc' = pc /\ err' = err
    /\ UNCHANGED <<mpvars, self, args, oracle, dt, i, accepted, samples, result>>

\* the Phase B iterations of a run of at most MaxRaw raw iterations
PhaseBIter ==
    /\ count.raw < MaxRaw
    /\ PhaseBLoop

\* a Phase B iteration whose proposal passes the coarse stage (line 223)
CoarsePass ==
    /\ PhaseBLoop
    /\ pc' = "phaseB"
    /\ trial'.stage1

\* the Phase B loop is exhausted: lines 248-257
ReturnDA ==
    /\ pc = "phaseB"
    /\ ~(inner_mh < self.iter_da)
    /\ IF args.verbose /\ inner_mh = 0
       THEN pc' = "raised" /\ err' = "line253" /\ result' = result
       ELSE /\ pc' = "done"
            /\ err' = err
            /\ result' = IF args.samples
                         THEN [samples_inner |-> samples_inner,
                               samples_outer |-> samples]
                         ELSE [acceptance_list |-> acceptance_list]
    /\ UNCHANGED <<mpvars, self, args, oracle, theta, dt, i, accepted, samples,
                   inner_mh, inner_accepted, acceptance_list, samples_inner,
                   count, trial>>

----------------------------------------------------------------------------
(* MetropolisHastings.__init__ and run_chain *)

InitMH ==
    /\ args \in [verbose : BOOLEAN, burnin : {<<>>} \cup {<<b>> : b \in 0 .. MaxBurnin}]
    /\ \E n \in 1 .. MaxNSamples, ptype \in ProposalTypes :
         self = [class |-> "MetropolisHastings", nsamples |-> n,
                 burnin |-> init_burnin(n, args.burnin),
                 dt |-> DtScale \div 10, proposal_type |-> ptype]
    /\ oracle \in [like : Likelihoods]
    /\ pc = "run"
    /\ err = "none"
    /\ theta \in Box
    /\ dt = self.dt
    /\ i = 0
    /\ accepted = 0
    /\ samples = Zeros(self.nsamples + self.burnin)
    /\ inner_mh = 0
    /\ inner_accepted = 0
    /\ acceptance_list = <<>>
    /\ samples_inner = <<>>
    /\ result = None
    /\ count = NoCount
    /\ trial = NoTrial
    /\ NoChains

\* one iteration of the loop (lines 66-86)
MHIter ==
    /\ pc = "run"
    /\ i < self.nsamples + self.burnin
    /\ IF proposal_raises
       THEN /\ pc' = "raised"
            /\ err' = "line48"
            /\ UNCHANGED <<theta, accepted, samples, dt, trial, i>>
       ELSE
           /\ \E theta_proposal \in proposal(theta, dt), u \in U :
                LET a == acceptance(oracle.like, theta, theta_proposal)
                    acc == Lt(u, a)
                    theta1 == decide(theta, theta_proposal, acc)
                IN  /\ theta' = theta1
                    /\ accepted' = IF acc THEN accepted + 1 ELSE accepted
                    /\ samples' = [samples EXCEPT ![i + 1] = theta1]
                    /\ dt' = adapt(dt, a, i)
                    /\ trial' = [phase |-> "MH", before |-> theta,
                                 proposal |-> theta_proposal, stage1 |-> acc,
                                 stage2 |-> FALSE]
           /\ IF PbarRaises(self.nsamples)
              THEN pc' = "raised" /\ err' = "line85" /\ i' = i
              ELSE pc' = pc /\ err' = err /\ i' = i + 1
    /\ UNCHANGED <<mpvars, self, args, oracle, inner_mh, inner_accepted,
                   acceptance_list, samples_inner, result, count>>

\* the loop is exhausted: line 88
ReturnMH ==
    /\ pc = "run"
    /\ ~(i < self.nsamples + self.burnin)
    /\ pc' = "done"
    /\ result' = [samples |-> trim(samples, self.burnin),
                  rate |-> <<accepted, self.nsamples>>]
    /\ UNCHANGED <<mpvars, self, args, oracle, err, theta, dt, i, accepted, samples,
                   inner_mh, inner_accepted, acceptance_list, samples_inner,
                   count, trial>>

----------------------------------------------------------------------------
(* A run is one call of run_chain on a driver of either class *)

Init == InitDA \/ InitMH

Next ==
    \/ PhaseAIter
    \/ StartDA
    \/ PhaseBIter
    \/ ReturnDA
    \/ MHIter
    \/ ReturnMH

Spec == Init /\ [][Next]_vars

IsDA == self.class = "MCMCDA"
IsMH == self.class = "MetropolisHastings"

\* the Phase B loop has run to its end (the run returned, or raised after it)
PhaseBDone == IsDA /\ (pc = "done" \/ err = "line253")

----------------------------------------------------------------------------
(* A delayed-acceptance run whose Phase B loop runs as long as the code    *)
(* lets it: the run keeps taking steps, and a coarse pass, which is        *)
(* possible in every iteration, is not put off for ever.                   *)

NextDA ==
    \/ PhaseAIter
    \/ StartDA
    \/ PhaseBLoop
    \/ ReturnDA

FairSpecDA ==
    /\ InitDA
    /\ [][NextDA]_vars
    /\ WF_vars(NextDA)
    /\ SF_vars(CoarsePass)

----------------------------------------------------------------------------
(* MetropolisHastings.run_chains and _run_chain (lines 91-115)             *)
(*                                                                         *)
(* A chain process that has put its result on the mp.Queue does not exit   *)
(* before its feeder thread has written the whole message to the pipe, and *)
(* a write blocks while the pipe is full; a message is written under the   *)
(* queue's write lock.  Sizes are in units of which the pipe holds PipeCap.*)

drivervars == <<self, args, oracle, pc, err, theta, dt, i, accepted, samples,
                inner_mh, inner_accepted, acceptance_list, samples_inner,
                result, count, trial>>

Chains == 1 .. Len(processes)

\* position of the caller after the start loop (103-106) reached index k
AfterJoin(k) ==
    IF k < self.nchains THEN [pc |-> "join", k |-> k]
    ELSE [pc |-> "drain", k |-> 0]

\* position of the caller after the join loop (108-109) reached index k
AfterStart(k) ==
    IF k < self.nchains THEN [pc |-> "start", k |-> k] ELSE AfterJoin(0)

InitChains ==
    /\ self \in [class : {"MetropolisHastings"}, nchains : 0 .. MaxChains]
    /\ args = [verbose |-> FALSE]
    /\ oracle = [like |-> [t \in Theta |-> 1]]
    /\ pc = "idle"
    /\ err = "none"
    /\ theta = 0
    /\ dt = DtScale \div 10
    /\ i = 0
    /\ accepted = 0
    /\ samples = <<>>
    /\ inner_mh = 0
    /\ inner_accepted = 0
    /\ acceptance_list = <<>>
    /\ samples_inner = <<>>
    /\ result = None
    /\ count = NoCount
    /\ trial = NoTrial
    /\ main = [pc |-> "seeds", k |-> 0]
    /\ seeds = <<>>
    /\ processes = <<>>
    /\ result_queue = EmptyQueue
    /\ results = <<>>

\* seeds = [torch.randint(0, 100000, (1,)).item() for _ in range(nchains)]
DrawSeeds ==
    /\ main.pc = "seeds"
    /\ seeds' \in [1 .. self.nchains -> 0 .. (MaxSeed - 1)]
    /\ main' = AfterStart(0)
    /\ UNCHANGED <<drivervars, processes, result_queue, results>>

\* p = mp.Process(...); processes.append(p); p.start()
StartProcess ==
    /\ main.pc = "start"
    /\ processes' = Append(processes,
                           [state |-> "running", seed |-> seeds[main.k + 1],
                            size |-> 0, pending |-> 0])
    /\ main' = AfterStart(main.k + 1)
    /\ UNCHANGED <<drivervars, seeds, result_queue, results>>

\* _run_chain: run_chain returned and result_queue.put hands the message to
\* the feeder thread
ChainPut(c) ==
    /\ processes[c].state = "running"
    /\ \E sz \in 1 .. MaxSize :
         processes' = [processes EXCEPT ![c].state = "flushing",
                                        ![c].size = sz, ![c].pending = sz]
    /\ UNCHANGED <<drivervars, main, seeds, result_queue, results>>

\* _run_chain: run_chain raised; the process ends without a put
ChainFail(c) ==
    /\ processes[c].state = "running"
    /\ processes' = [processes EXCEPT ![c].state = "failed"]
    /\ UNCHANGED <<drivervars, main, seeds, result_queue, results>>

\* the feeder thread of chain c writes one unit of its message; with the
\* last unit the message is complete and the process exits
Feed(c) ==
    /\ processes[c].state = "flushing"
    /\ result_queue.wlock \in {0, c}
    /\ result_queue.used < PipeCap
    /\ LET last == processes[c].pending = 1
       IN  /\ processes' = [processes EXCEPT
                              ![c].pending = @ - 1,
                              ![c].state = IF last THEN "exited" ELSE @]
           /\ result_queue' =
                 [items |-> IF last
                            THEN Append(result_queue.items,
                                        [chain |-> c,
                                         size |-> processes[c].size])
                            ELSE result_queue.items,
                  used |-> result_queue.used + 1,
                  wlock |-> IF last THEN 0 ELSE c]
    /\ UNCHANGED <<drivervars, main, seeds, results>>

\* p.join() returns once the process has ended
JoinProcess ==
    /\ main.pc = "join"
    /\ processes[main.k + 1].state \in {"exited", "failed"}
    /\ main' = AfterJoin(main.k + 1)
    /\ UNCHANGED <<drivervars, seeds, processes, result_queue, results>>

\* while not result_queue.empty(): results.append(result_queue.get())
GetResult ==
    /\ main.pc = "drain"
    /\ result_queue.items # <<>>
    /\ results' = Append(results, Head(result_queue.items).chain)
    /\ result_queue' =
          [result_queue EXCEPT !.items = Tail(@),
                               !.used = @ - Head(result_queue.items).size]
    /\ UNCHANGED <<drivervars, main, seeds, processes>>

\* return results
ReturnResults ==
    /\ main.pc = "drain"
    /\ result_queue.items = <<>>
    /\ main' = [pc |-> "returned", k |-> 0]
    /\ UNCHANGED <<drivervars, seeds, processes, result_queue, results>>

Caller == DrawSeeds \/ StartProcess \/ JoinProcess \/ GetResult \/ ReturnResults

Chain(c) == c \in Chains /\ (ChainPut(c) \/ ChainFail(c) \/ Feed(c))

NextChains ==
    \/ DrawSeeds
    \/ StartProcess
    \/ JoinProcess
    \/ GetResult
    \/ ReturnResults
    \/ \E c \in Chains : ChainPut(c)
    \/ \E c \in Chains : ChainFail(c)
    \/ \E c \in Chains : Feed(c)

\* every process that can take a step eventually takes one
FairSpecChains ==
    /\ InitChains
    /\ [][NextChains]_vars
    /\ WF_vars(Caller)
    /\ \A c \in 1 .. MaxChains : WF_vars(Chain(c))

AnyFailed == \E c \in Chains : processes[c].state = "failed"
Returned == main.pc = "returned"

\* the chains whose result is in the list, each once
Collected(S) ==
    /\ Len(results) = Cardinality(S)
    /\ \A c \in S : \E k \in 1 .. Len(results) : results[k] = c

(* C13 as stated: when every chain runs to completion, run_chains          *)
(* eventually returns, and the list it returns holds exactly nchains       *)
(* results, one per chain, whatever the size of a chain's result.          *)
C13_AllChainsCollected ==
    /\ <>(AnyFailed \/ Returned)
    /\ [](Returned /\ ~AnyFailed => Collected(1 .. self.nchains))

(* C14 as stated: the seeds run_chains gives to its chains are pairwise    *)
(* distinct.                                                               *)
C14_SeedsDistinct ==
    \A j, k \in Chains :
        j # k => processes[j].seed # processes[k].seed

(* C15 as stated: when some chains fail before posting a result and the    *)
(* others complete, run_chains still returns, and the list it returns      *)
(* holds exactly the results of the chains that completed.                 *)
C15_FailureIsolated ==
    /\ AnyFailed ~> Returned
    /\ [](Returned =>
            Collected({c \in Chains : processes[c].state = "exited"}))

----------------------------------------------------------------------------
(* C1: in Phase B the trial counter inner_mh starts at 0, goes up by one   *)
(* on each proposal that passes the coarse stage and is left alone by a    *)
(* coarse-rejected one, and the loop ends exactly when it equals iter_da:  *)
(* a completed Phase B has exactly iter_da coarse-accepted proposals.      *)
C1_TrialCounter ==
    IsDA =>
        /\ inner_mh = count.passed
        /\ inner_mh <= self.iter_da
        /\ PhaseBDone => count.passed = self.iter_da

C1_Witness ==
    /\ IsDA /\ pc = "done"
    /\ self.iter_da >= 2
    /\ count.raw > count.passed

(* C2 as stated: a completed Phase B has made exactly iter_da fine-oracle  *)
(* evaluations and at least iter_da coarse-oracle evaluations.             *)
C2_FineCallsOriginal ==
    PhaseBDone =>
        /\ count.inner = self.iter_da
        /\ count.outer >= self.iter_da

(* C2 amended: a completed Phase B has made exactly 2 * iter_da            *)
(* fine-oracle evaluations (at theta and at the proposal, in each trial)   *)
(* and at least iter_da coarse-oracle evaluations.                         *)
C2_FineCalls ==
    PhaseBDone =>
        /\ count.inner = 2 * self.iter_da
        /\ count.outer >= self.iter_da

C2_Witness ==
    /\ IsDA /\ pc = "done"
    /\ self.iter_da >= 1
    /\ count.inner >= 2
    /\ count.outer > count.inner

(* C3: the step size is frozen in Phase B: entering Phase B keeps the step *)
(* size the last Phase A iteration produced, and no Phase B step (coarse   *)
(* reject, stage-2 accept, stage-2 reject, return) changes it.             *)
C3_StepFrozen ==
    [][(IsDA /\ (pc = "phaseB" \/ pc' = "phaseB")) => dt' = dt]_vars

C3_Witness ==
    /\ IsDA /\ pc = "done"
    /\ self.iter_mcmc >= 1
    /\ dt # self.dt
    /\ inner_accepted >= 1
    /\ count.raw > inner_accepted

(* C4: theta changes only by an accepted proposal.  After a Phase B        *)
(* iteration theta is the proposal when both stages accepted, and is its   *)
(* value before the proposal was drawn after a rejection at stage 1 or at  *)
(* stage 2; after an iteration of Phase A or of the single-stage driver it *)
(* is the proposal when the draw was below the acceptance probability, and *)
(* its previous value otherwise.                                           *)
C4_ThetaOnlyOnAccept ==
    /\ trial.phase = "B" =>
           theta = IF trial.stage1 /\ trial.stage2
                   THEN trial.proposal ELSE trial.before
    /\ trial.phase \in {"A", "MH"} =>
           theta = IF trial.stage1 THEN trial.proposal ELSE trial.before

C4_Witness ==
    /\ trial.phase = "B"
    /\ trial.stage1 /\ ~trial.stage2
    /\ trial.proposal # trial.before
    /\ theta = trial.before

C6_ReturnsOutcomeBits ==
    (IsDA /\ pc = "done") =>
        /\ "acceptance_list" \in DOMAIN result
        /\ Len(result.acceptance_list) = self.iter_da
        /\ \A k \in 1 .. self.iter_da : result.acceptance_list[k] \in {0, 1}
        /\ (trial.phase = "B" /\ trial.stage1) =>
               (result.acceptance_list[inner_mh] = 1 <=> trial.stage2)

(* C7 as stated: with iter_da = 0, run_chain with its default arguments,   *)
(* and with verbose=False, makes no Phase B trial and no fine-oracle       *)
(* evaluation and returns an empty outcome record without raising.         *)
C7_ZeroTrialsReturns ==
    (IsDA /\ self.iter_da = 0 /\ ~args.samples /\ i = self.iter_mcmc
          /\ pc \in {"done", "raised"}) =>
        /\ pc = "done"
        /\ count.raw = 0 /\ count.inner = 0
        /\ result.acceptance_list = <<>>

(* C8: a run of the single-stage driver that returns has made exactly      *)
(* burnin + nsamples iterations; iteration i writes slot i of the sample   *)
(* buffer, and no other slot, with theta as it is after the accept/reject  *)
(* decision; the returned samples are the nsamples buffer entries from     *)
(* index burnin on; a burnin that is not given is floor(0.1 * nsamples).   *)
C8_State ==
    IsMH =>
        /\ Len(samples) = self.nsamples + self.burnin
        /\ (trial.phase = "MH" /\ pc # "raised") => samples[i] = theta
        /\ pc = "done" =>
              /\ i = self.burnin + self.nsamples
              /\ Len(result.samples) = self.nsamples
              /\ \A k \in 1 .. self.nsamples :
                     result.samples[k] = samples[self.burnin + k]
        /\ args.burnin = <<>> =>
              /\ 10 * self.burnin <= self.nsamples
              /\ self.nsamples < 10 * (self.burnin + 1)
        /\ args.burnin # <<>> => self.burnin = args.burnin[1]

C8_Step ==
    (IsMH /\ pc = "run") =>
        \/ /\ pc' = "run"
           /\ i' = i + 1
           /\ samples'[i'] = theta'
           /\ \A k \in 1 .. Len(samples) : k # i' => samples'[k] = samples[k]
        \/ pc' = "raised"
        \/ pc' = "done" /\ samples' = samples /\ i' = i

C9_RateInUnitInterval ==
    (IsMH /\ pc = "done") =>
        /\ 0 <= result.rate[1]
        /\ result.rate[1] <= result.rate[2]

(* C10 as stated: the single-stage driver never raises on valid numeric    *)
(* input, with verbose on as well as off.                                  *)
C10_NeverRaises == IsMH => pc # "raised"

----------------------------------------------------------------------------
\* the likelihood of the (coarse) accept/reject test of the running driver
CoarseOracle == IF IsMH THEN oracle.like ELSE oracle.outer

(* C11: with the box prior a proposal with a coordinate outside the box    *)
(* has acceptance probability exactly 0 and is never accepted, in the      *)
(* single-stage driver, in Phase A and in Phase B (it does not reach stage *)
(* 2); theta stays as it was and the rejection raises nothing.             *)
C11_OutsideBoxRejected ==
    (trial.phase # "none" /\ trial.proposal \notin Box) =>
        /\ LET a == acceptance(CoarseOracle, trial.before, trial.proposal)
           IN  a[1] = 0 /\ a[2] > 0
        /\ ~trial.stage1 /\ ~trial.stage2
        /\ theta = trial.before
        /\ ~args.verbose => pc # "raised"

C11_Witness ==
    /\ trial.phase = "B"
    /\ trial.proposal \notin Box
    /\ inner_mh >= 1
    /\ ~args.verbose

(* C12: the step size is strictly positive in every state of a chain: from *)
(* a positive initial step size, the update after each iteration of the    *)
(* single-stage driver and of Phase A yields a positive step size.         *)
C12_StepPositive == (IsMH \/ IsDA) => dt > 0

C12_Witness ==
    /\ IsMH
    /\ i >= 3
    /\ accepted = 0
    /\ dt < self.dt

(* C16 as stated: with sample retention, the inner-phase buffer has one    *)
(* theta per trial, so its length after Phase B is iter_da, and the        *)
(* outer-phase buffer has length iter_mcmc.                                *)
C16_InnerBufferOriginal ==
    (PhaseBDone /\ args.samples) =>
        /\ Len(samples_inner) = self.iter_da
        /\ Len(samples) = self.iter_mcmc

(* C16 amended: with sample retention, the inner-phase buffer has one      *)
(* theta per iteration of the Phase B loop, coarse-rejected iterations     *)
(* included, so its length after Phase B is the number of loop iterations, *)
(* which is at least iter_da; the outer-phase buffer has length iter_mcmc. *)
C16_InnerBuffer ==
    (IsDA /\ args.samples) =>
        /\ Len(samples_inner) = count.raw
        /\ Len(samples) = self.iter_mcmc
        /\ PhaseBDone => Len(samples_inner) >= self.iter_da

C16_Witness ==
    /\ IsDA /\ args.samples /\ pc = "done"
    /\ self.iter_da >= 1
    /\ Len(samples_inner) > self.iter_da

(* C17: in Phase B the fine oracle is evaluated only in an iteration whose *)
(* proposal passed the coarse stage; an iteration whose proposal is        *)
(* rejected at the coarse stage evaluates no fine oracle and leaves the    *)
(* trial counter, the accepted count and every outcome entry unchanged.    *)
C17_FineOnlyAfterCoarsePass ==
    [][IsDA =>
        /\ count'.inner # count.inner =>
               (trial'.phase = "B" /\ trial'.stage1)
        /\ (count'.raw # count.raw /\ ~trial'.stage1) =>
               /\ count'.inner = count.inner
               /\ inner_mh' = inner_mh
               /\ inner_accepted' = inner_accepted
               /\ acceptance_list' = acceptance_list]_vars

C17_Witness ==
    /\ trial.phase = "B" /\ ~trial.stage1
    /\ trial.proposal \in Box
    /\ count.inner >= 2
    /\ inner_accepted >= 1

(* C18: stage 2 is never entered with a coarse acceptance probability 0:   *)
(* whenever 1/a1 is evaluated (the proposal passed the coarse test),       *)
(* a1 > 0.                                                                 *)
C18_NoDivisionByZero ==
    (trial.phase = "B" /\ trial.stage1) =>
        LET a1 == acceptance(oracle.outer, trial.before, trial.proposal)
        IN  a1[1] > 0 /\ a1[2] > 0

C18_Witness ==
    /\ trial.phase = "B" /\ trial.stage1
    /\ LET a1 == acceptance(oracle.outer, trial.before, trial.proposal)
       IN  a1[1] > 0 /\ a1[1] < a1[2]

(* C20: with the box prior and a likelihood that is finite everywhere,     *)
(* theta is inside the box in every state of the single-stage driver and   *)
(* of both phases of the delayed-acceptance driver, so the posterior       *)
(* density of the current state is never 0 (log-posterior -inf) and the    *)
(* acceptance ratio is never nan.                                          *)
C20_ThetaInBox ==
    (IsMH \/ IsDA) =>
        /\ theta \in Box
        /\ posterior(CoarseOracle, theta) > 0
        /\ IsDA => posterior(oracle.inner, theta) > 0
        /\ trial.phase # "none" =>
              /\ trial.before \in Box
              /\ ~IsNaN(acceptance(CoarseOracle, trial.before,
                                   trial.proposal))

C20_Witness ==
    /\ IsMH
    /\ theta \in Box /\ theta # 0
    /\ accepted >= 1
    /\ trial.proposal \notin Box

(* C19 as stated: in langevin mode the proposal kernel of both drivers     *)
(* returns a candidate, for every driver that has the oracle methods its   *)
(* class requires; selecting langevin never makes a proposal step fail.    *)
C19_LangevinNeverFails ==
    self.proposal_type = "langevin" => err \notin {"line48", "line161"}

(* C21 as stated: under fairness on coarse acceptance, Phase B of a        *)
(* delayed-acceptance run eventually ends with the trial counter equal to  *)
(* iter_da; and in Phase B the counter moves only by one, and only in an   *)
(* iteration whose proposal passed the coarse stage.                       *)
C21_PhaseBTerminates ==
    /\ (IsDA /\ pc = "phaseB") ~> (PhaseBDone /\ inner_mh = self.iter_da)
    /\ [][pc = "phaseB" /\ inner_mh' # inner_mh
            => trial'.stage1 /\ inner_mh' = inner_mh + 1]_vars

============================================================================
